---- MODULE Spec2Model ----
(***************************************************************************)
(* The undo/redo manager of the mathfield editor (src/editor/undo.ts).     *)
(*                                                                         *)
(* The engine owns a stack of model states, the index of the current       *)
(* entry, the recording flag and the tag of the last recorded operation.   *)
(* Every public method of UndoManager is one action.  The document model   *)
(* (ModelPrivate) is the variable `model`; the host edits it between       *)
(* calls (action Edit).                                                    *)
(*                                                                         *)
(* Array positions are 0-based as in the source: `index` ranges over       *)
(* -1 .. stack.length - 1 and entry i of the array is stack[i + 1] of the  *)
(* TLA+ sequence (operator at).                                            *)
(***************************************************************************)
EXTENDS Integers, Sequences, FiniteSets, TLC

\* UndoManager.maximumDepth is 1000 in the source; the model is checked with
\* a small depth so that a full stack and evictions are reached.
maximumDepth == 3

\* A run of pushes is followed for up to maximumDepth + MaxExtra snapshots.
MaxExtra == 2

\* `undefined`: an omitted optional argument (op?, selection?).
Undefined == "<undefined>"

\* The operation tags the host passes to snapshot(op?).
Tags == {Undefined, "", "insert", "delete"}

Contents == {"x", "y"}

\* The contents the document runs through in the eviction scenario, which
\* needs more than maximumDepth distinct states.
WideContents == <<"x", "y", "z", "u", "v", "w", "t">>

Selections == {"s1", "s2"}

\* ModelState: what getState() returns and setState() takes.
ModelStates == [content : Contents, selection : Selections]

VARIABLES
    recording,  \* UndoManager.recording
    stack,      \* UndoManager.stack
    index,      \* UndoManager.index
    lastOp,     \* UndoManager.lastOp
    model,      \* the state of the document model (ModelPrivate)
    call,       \* the last event: the public method called, its argument, its result
    io,         \* the calls the last method made on the model, in order
    path,       \* the branches the last snapshot() or pop() took
    trail,      \* the latest calls, as far as they start one of the Sequences below
    run,        \* the states pushed since the stack was empty, while nothing else happened
    tagged      \* the tag each entry of the stack was pushed with, where tags are followed

engine == <<recording, stack, index, lastOp>>

vars == <<recording, stack, index, lastOp, model, call, io, path, trail, run, tagged>>

----------------------------------------------------------------------------
(* JavaScript arrays *)

Min(a, b) == IF a < b THEN a ELSE b

Max(a, b) == IF a > b THEN a ELSE b

\* arr[i]
at(arr, i) == arr[i + 1]

\* Array.prototype.splice(start, deleteCount): the array left after removing
\* deleteCount elements from position start (both clamped to the array).
splice(arr, start, deleteCount) ==
    LET len == Len(arr)
        s == IF start < 0 THEN Max(len + start, 0) ELSE Min(start, len)
        c == Min(Max(deleteCount, 0), len - s)
    IN  SubSeq(arr, 1, s) \o SubSeq(arr, s + c + 1, len)

\* Array.prototype.shift(): the array left after removing the first element.
shift(arr) == IF arr = <<>> THEN arr ELSE Tail(arr)

\* arr[i].selection = selection
setSelection(arr, i, selection) ==
    [arr EXCEPT ![i + 1] = [@ EXCEPT !.selection = selection]]

\* JavaScript truthiness of an optional string or object argument.
truthy(v) == v # Undefined /\ v # ""

----------------------------------------------------------------------------
(* The document model *)

\* model.getState(): a copy of the current content and selection of model m.
getState(m) == m

\* model.setState(state, options): the state of model m afterwards.
setState(m, state, options) == state

----------------------------------------------------------------------------
(* UndoManager.  e is the object (its fields), m the state of its model.    *)
(* The helpers return the object after the statement they stand for; a      *)
(* method returns an Outcome.                                               *)

this ==
    [recording |-> recording, stack |-> stack, index |-> index, lastOp |-> lastOp]

NoPath == [popped |-> FALSE, dropped |-> FALSE, shifted |-> FALSE]

\* What a call leaves: the object, the model, the value returned (Undefined
\* for a void method), the calls made on the model and the branches taken.
Outcome(e, m, ret, modelCalls, branches) ==
    [this |-> e, model |-> m, ret |-> ret, io |-> modelCalls, path |-> branches]

\* The constructor: `recording = false`, then reset().
constructed == [recording |-> FALSE, stack |-> <<>>, index |-> -1, lastOp |-> ""]

\* reset() leaving index as it is.
resetKeepsIndex(e, m) ==
    Outcome([e EXCEPT !.stack = <<>>, !.lastOp = ""], m, Undefined, <<>>, NoPath)

reset(e, m) ==
    Outcome([e EXCEPT !.stack = <<>>, !.index = -1, !.lastOp = ""],
            m, Undefined, <<>>, NoPath)

startRecording(e, m) ==
    Outcome([e EXCEPT !.recording = TRUE], m, Undefined, <<>>, NoPath)

stopRecording(e, m) ==
    Outcome([e EXCEPT !.recording = FALSE], m, Undefined, <<>>, NoPath)

canUndo(e) == e.index - 1 >= 0

\* canRedo() stopping one entry short of the last.
canRedoShort(e) == Len(e.stack) - 2 > e.index

canRedo(e) == Len(e.stack) - 1 > e.index

\* amendSelection writing the selection into every entry of the stack.
amendSelectionAll(e, selection) ==
    IF truthy(selection) /\ e.index >= 0
    THEN [e EXCEPT !.stack = [i \in DOMAIN e.stack |->
                                 [e.stack[i] EXCEPT !.selection = selection]]]
    ELSE e

\* stopCoalescing(), lines 58-59.
amendSelection(e, selection) ==
    IF truthy(selection) /\ e.index >= 0
    THEN [e EXCEPT !.stack = setSelection(e.stack, e.index, selection)]
    ELSE e

\* stopCoalescing() leaving lastOp as it is.
stopCoalescingKeepsOp(e, m, selection) ==
    Outcome(amendSelection(e, selection), m, Undefined, <<>>, NoPath)

stopCoalescing(e, m, selection) ==
    Outcome([amendSelection(e, selection) EXCEPT !.lastOp = ""],
            m, Undefined, <<>>, NoPath)

\* undo() restoring the current entry, stack[index].
undoStateCurrent(e) == at(e.stack, e.index)

\* The state undo() hands to setState: stack[index - 1].
undoState(e) == at(e.stack, e.index - 1)

\* undo() without `this.lastOp = ''`.
undoKeepsOp(e, m) ==
    IF ~canUndo(e)
    THEN Outcome(e, m, FALSE, <<>>, NoPath)
    ELSE LET options == [silenceNotifications |-> FALSE, type |-> "undo"]
         IN  Outcome([e EXCEPT !.index = e.index - 1],
                     setState(m, undoState(e), options),
                     TRUE,
                     <<[fn |-> "setState", state |-> undoState(e), options |-> options]>>,
                     NoPath)

\* undo() clearing lastOp also when there is nothing to undo.
undoFailClearsOp(e, m) ==
    IF ~canUndo(e)
    THEN Outcome([e EXCEPT !.lastOp = ""], m, FALSE, <<>>, NoPath)
    ELSE LET options == [silenceNotifications |-> FALSE, type |-> "undo"]
         IN  Outcome([e EXCEPT !.index = e.index - 1, !.lastOp = ""],
                     setState(m, undoState(e), options),
                     TRUE,
                     <<[fn |-> "setState", state |-> undoState(e), options |-> options]>>,
                     NoPath)

undo(e, m) ==
    IF ~canUndo(e)
    THEN Outcome(e, m, FALSE, <<>>, NoPath)
    ELSE LET options == [silenceNotifications |-> FALSE, type |-> "undo"]
         IN  Outcome([e EXCEPT !.index = e.index - 1, !.lastOp = ""],
                     setState(m, undoState(e), options),
                     TRUE,
                     <<[fn |-> "setState", state |-> undoState(e), options |-> options]>>,
                     NoPath)

\* redo() reading stack[index] before index is incremented.
redoStateStale(e) == at(e.stack, e.index)

\* The state redo() hands to setState: stack[index], index already incremented.
redoState(e) == at(e.stack, e.index + 1)

\* redo() without `this.index += 1`.
redoNoIndex(e, m) ==
    IF ~canRedo(e)
    THEN Outcome(e, m, FALSE, <<>>, NoPath)
    ELSE LET options == [silenceNotifications |-> FALSE, type |-> "redo"]
         IN  Outcome([e EXCEPT !.lastOp = ""],
                     setState(m, at(e.stack, e.index), options),
                     TRUE,
                     <<[fn |-> "setState", state |-> at(e.stack, e.index), options |-> options]>>,
                     NoPath)

redo(e, m) ==
    IF ~canRedo(e)
    THEN Outcome(e, m, FALSE, <<>>, NoPath)
    ELSE LET options == [silenceNotifications |-> FALSE, type |-> "redo"]
         IN  Outcome([e EXCEPT !.index = e.index + 1, !.lastOp = ""],
                     setState(m, redoState(e), options),
                     TRUE,
                     <<[fn |-> "setState", state |-> redoState(e), options |-> options]>>,
                     NoPath)

\* pop() removing the current entry alone, the redo entries staying.
poppedOne(e) ==
    IF ~canUndo(e)
    THEN e
    ELSE [e EXCEPT !.stack = splice(e.stack, e.index, 1), !.index = e.index - 1]

\* pop() without its canUndo() guard.
poppedUnguarded(e) ==
    [e EXCEPT !.stack = splice(e.stack, e.index, Len(e.stack) - e.index),
              !.index = e.index - 1]

\* pop(), as a statement of snapshot() and as the body of the method.
popped(e) ==
    IF ~canUndo(e)
    THEN e
    ELSE [e EXCEPT !.stack = splice(e.stack, e.index, Len(e.stack) - e.index),
                   !.index = e.index - 1]

\* pop() takes the branch `popped` when it passes its guard, and `dropped`
\* when redo entries go with the current one.
pop(e, m) ==
    Outcome(popped(e), m, Undefined, <<>>,
            [popped |-> canUndo(e),
             dropped |-> canUndo(e) /\ canRedo(e),
             shifted |-> FALSE])

\* coalescing without the test `op &&`: an empty tag coalesces too.
coalescingUntagged(e, op) == op = e.lastOp

\* snapshot(), line 129: the condition under which pop() is called.
coalescing(e, op) == truthy(op) /\ op = e.lastOp

\* snapshot() without line 129.
coalesceNever(e, op) == e

\* coalesce with the comparison of the tags inverted.
coalesceInverted(e, op) == IF truthy(op) /\ op # e.lastOp THEN popped(e) ELSE e

\* snapshot(), line 129: coalesce with the previous operation.
coalesce(e, op) == IF coalescing(e, op) THEN popped(e) ELSE e

\* snapshot() without line 132.
dropRedoNothing(e) == e

\* snapshot(), line 132: drop the redo entries.
dropRedo(e) ==
    [e EXCEPT !.stack = splice(e.stack, e.index + 1, Len(e.stack) - e.index - 1)]

\* snapshot(), lines 135-137: add the new entry.
push(e, state) ==
    [e EXCEPT !.stack = Append(e.stack, state), !.index = e.index + 1]

\* snapshot(), line 141: the stack has grown past the maximum depth.
overflowing(e) == Len(e.stack) > maximumDepth

\* forgetOldest with pop() for shift(): the newest entry is removed.
forgetOldestPops(e) ==
    IF overflowing(e)
    THEN [e EXCEPT !.stack = SubSeq(e.stack, 1, Len(e.stack) - 1),
                   !.index = e.index - 1]
    ELSE e

\* forgetOldest with the shift() left out.
forgetOldestNoShift(e) ==
    IF overflowing(e) THEN [e EXCEPT !.index = e.index - 1] ELSE e

\* snapshot(), lines 141-144: forget the oldest entry.
forgetOldest(e) ==
    IF overflowing(e)
    THEN [e EXCEPT !.stack = shift(e.stack), !.index = e.index - 1]
    ELSE e

\* snapshot(), line 162: this.lastOp = op ?? ''.
recordOp(e, op) == [e EXCEPT !.lastOp = IF op = Undefined THEN "" ELSE op]

\* snapshot() without the test of `recording`.
snapshotUngated(e, m, op) ==
    LET merged == coalesce(e, op)
        pushed == push(dropRedo(merged), getState(m))
    IN  Outcome(recordOp(forgetOldest(pushed), op),
                m,
                TRUE,
                <<[fn |-> "getState", state |-> getState(m)]>>,
                [popped |-> coalescing(e, op),
                 dropped |-> canRedo(merged),
                 shifted |-> overflowing(pushed)])

snapshot(e, m, op) ==
    IF ~e.recording
    THEN Outcome(e, m, FALSE, <<>>, NoPath)
    ELSE LET merged == coalesce(e, op)
             pushed == push(dropRedo(merged), getState(m))
         IN  Outcome(recordOp(forgetOldest(pushed), op),
                     m,
                     TRUE,
                     <<[fn |-> "getState", state |-> getState(m)]>>,
                     [popped |-> coalescing(e, op),
                      dropped |-> canRedo(merged),
                      shifted |-> overflowing(pushed)])

RECURSIVE undoRepeatedly(_, _, _)
\* undo() called on object e with model m until it returns false, n times at
\* most: how many calls returned true, whether the last one returned false,
\* and what they leave.
undoRepeatedly(e, m, n) ==
    LET o == undo(e, m)
    IN  IF ~o.ret THEN [count |-> 0, ended |-> TRUE, this |-> o.this, model |-> o.model]
        ELSE IF n = 1 THEN [count |-> 1, ended |-> FALSE, this |-> o.this, model |-> o.model]
        ELSE LET r == undoRepeatedly(o.this, o.model, n - 1)
             IN  [r EXCEPT !.count = @ + 1]

RECURSIVE redoRepeatedly(_, _, _)
\* The same for redo().
redoRepeatedly(e, m, n) ==
    LET o == redo(e, m)
    IN  IF ~o.ret THEN [count |-> 0, ended |-> TRUE, this |-> o.this, model |-> o.model]
        ELSE IF n = 1 THEN [count |-> 1, ended |-> FALSE, this |-> o.this, model |-> o.model]
        ELSE LET r == redoRepeatedly(o.this, o.model, n - 1)
             IN  [r EXCEPT !.count = @ + 1]

\* The last n elements of seq (all of it if it has fewer).
Last(seq, n) == SubSeq(seq, Max(Len(seq) - n, 0) + 1, Len(seq))

----------------------------------------------------------------------------
(* Runs of calls from a given state                                         *)

\* The run x of calls snapshot(op) (x.this the object it leaves, x.last the
\* state its last call captured) has left the entries `kept` followed by
\* the state its last call captured alone, and undo() then returns true and
\* hands the last of `kept` to setState.
OneStep(x, op, kept) ==
    LET o == undo(x.this, x.last)
    IN  /\ x.this.stack = Append(kept, x.last)
        /\ x.this.index = Len(kept)
        /\ x.this.lastOp = op
        /\ o.ret = TRUE
        /\ o.io = <<[fn |-> "setState",
                     state |-> kept[Len(kept)],
                     options |-> [silenceNotifications |-> FALSE, type |-> "undo"]]>>
        /\ o.model = kept[Len(kept)]
        /\ o.this.index = Len(kept) - 1

\* The outcome o of a snapshot on object e has added its entry above the
\* entries of e up to the current one, without calling pop().
Added(e, o) ==
    /\ o.ret = TRUE
    /\ ~o.path.popped
    /\ o.this.stack =
          Last(Append(SubSeq(e.stack, 1, e.index + 1), o.io[1].state), maximumDepth)
    /\ o.this.index = Len(o.this.stack) - 1

----------------------------------------------------------------------------
(* The trail of calls                                                       *)
(*                                                                          *)
(* trail holds the latest calls (method, argument, result), as far as they  *)
(* can still grow into one of the call sequences of interest.  The host's   *)
(* edits of the document are not calls and leave it alone.                  *)

\* S: a snapshot that returned true; C: stopCoalescing; U: undo; R: redo.
Kind(c) ==
    CASE c.op = "snapshot" /\ c.ret -> "S"
      [] c.op = "stopCoalescing" -> "C"
      [] c.op = "undo" -> "U"
      [] c.op = "redo" -> "R"
      [] OTHER -> "-"

Sequences ==
    {<<"S", "S">>, <<"S", "C", "S">>, <<"S", "U", "R">>, <<"S", "S", "U">>}

IsPrefix(p, q) == Len(p) <= Len(q) /\ SubSeq(q, 1, Len(p)) = p

Kinds(h) == [i \in 1 .. Len(h) |-> Kind(h[i])]

Tracked(h) == \E q \in Sequences : IsPrefix(Kinds(h), q)

\* The longest suffix of h that starts one of the Sequences (which have at
\* most three calls).
Latest(h) ==
    LET n == Len(h)
    IN  IF n >= 3 /\ Tracked(SubSeq(h, n - 2, n)) THEN SubSeq(h, n - 2, n)
        ELSE IF n >= 2 /\ Tracked(SubSeq(h, n - 1, n)) THEN SubSeq(h, n - 1, n)
        ELSE IF n >= 1 /\ Tracked(SubSeq(h, n, n)) THEN SubSeq(h, n, n)
        ELSE <<>>

----------------------------------------------------------------------------
(* The run of pushes                                                        *)
(*                                                                          *)
(* run.pushed lists the states pushed since the stack was last empty, as    *)
(* long as every call since was a snapshot that neither coalesced nor       *)
(* pushed a state already pushed (recording may be switched, the host may   *)
(* edit, stopCoalescing() may be called without a selection).  Any other    *)
(* call, or a longer run than maximumDepth + MaxExtra, ends the run.        *)

Range(seq) == {seq[i] : i \in 1 .. Len(seq)}

NoRun == [ok |-> FALSE, pushed |-> <<>>]

NewRun == [ok |-> TRUE, pushed |-> <<>>]

Followed(r, c, o) ==
    CASE c.op = "reset" -> NewRun
      [] c.op \in {"startRecording", "stopRecording"} -> r
      [] c.op = "stopCoalescing" /\ c.arg = Undefined -> r
      [] c.op = "snapshot" /\ ~c.ret -> r
      [] c.op = "snapshot" /\ c.ret ->
            IF /\ r.ok
               /\ ~o.path.popped
               /\ o.io[1].state \notin Range(r.pushed)
               /\ Len(r.pushed) < maximumDepth + MaxExtra
            THEN [r EXCEPT !.pushed = Append(r.pushed, o.io[1].state)]
            ELSE NoRun
      [] OTHER -> NoRun

----------------------------------------------------------------------------
(* The tags of the entries                                                  *)
(*                                                                          *)
(* tagged.ops lists, entry by entry, the tag recorded (line 162) by the     *)
(* snapshot that pushed the entry.  The tags are followed in the scenario   *)
(* SpecTags alone (tagged.on), which keeps the other scenarios small.       *)

NoTags == [on |-> FALSE, ops |-> <<>>]

NewTags == [on |-> TRUE, ops |-> <<>>]

\* The tags of the entries after call c with outcome o: reset() leaves none,
\* pop() those of the entries it keeps, a snapshot those of the entries it
\* keeps (from the second on if it shifted the oldest out) and its own.
Tagging(t, c, o) ==
    CASE ~t.on -> t
      [] c.op = "reset" -> [t EXCEPT !.ops = <<>>]
      [] c.op = "pop" -> [t EXCEPT !.ops = SubSeq(t.ops, 1, Len(o.this.stack))]
      [] c.op = "snapshot" /\ c.ret ->
            LET d == IF o.path.shifted THEN 1 ELSE 0
                n == Len(o.this.stack)
            IN  [t EXCEPT !.ops = Append(SubSeq(t.ops, d + 1, d + n - 1), o.this.lastOp)]
      [] OTHER -> t

----------------------------------------------------------------------------
(* The actions *)

Init ==
    /\ recording = constructed.recording
    /\ stack = constructed.stack
    /\ index = constructed.index
    /\ lastOp = constructed.lastOp
    /\ model \in ModelStates
    /\ call = [op |-> "constructor"]
    /\ io = <<>>
    /\ path = NoPath
    /\ trail = <<>>
    /\ run = NewRun
    /\ tagged = NoTags

\* Call c ends with outcome o.
Called(c, o) ==
    /\ recording' = o.this.recording
    /\ stack' = o.this.stack
    /\ index' = o.this.index
    /\ lastOp' = o.this.lastOp
    /\ model' = o.model
    /\ call' = c
    /\ io' = o.io
    /\ path' = o.path
    /\ trail' = Latest(Append(trail, c))
    /\ run' = Followed(run, c, o)
    /\ tagged' = Tagging(tagged, c, o)

Reset == Called([op |-> "reset"], reset(this, model))

StartRecording == Called([op |-> "startRecording"], startRecording(this, model))

StopRecording == Called([op |-> "stopRecording"], stopRecording(this, model))

StopCoalescing(selection) ==
    Called([op |-> "stopCoalescing", arg |-> selection],
           stopCoalescing(this, model, selection))

Undo ==
    LET o == undo(this, model) IN Called([op |-> "undo", ret |-> o.ret], o)

Redo ==
    LET o == redo(this, model) IN Called([op |-> "redo", ret |-> o.ret], o)

Pop == Called([op |-> "pop"], pop(this, model))

Snapshot(op) ==
    LET o == snapshot(this, model, op)
    IN  Called([op |-> "snapshot", arg |-> op, ret |-> o.ret], o)

\* The host changes the document to state m (typing, deleting, moving the
\* selection): not a call of the engine.
Edited(m) ==
    /\ m # model
    /\ model' = m
    /\ call' = [op |-> "edit"]
    /\ io' = <<>>
    /\ path' = NoPath
    /\ UNCHANGED <<engine, trail, run, tagged>>

Edit == \E m \in ModelStates : Edited(m)

Next ==
    \/ Reset
    \/ StartRecording
    \/ StopRecording
    \/ \E selection \in Selections \cup {Undefined} : StopCoalescing(selection)
    \/ Undo
    \/ Redo
    \/ Pop
    \/ \E op \in Tags : Snapshot(op)
    \/ Edit

Spec == Init /\ [][Next]_vars

(* The eviction scenario: from the constructed engine, only recording is    *)
(* switched on, the host edits (each edit gives the next of WideContents,   *)
(* a content the document never had), and snapshots that do not coalesce    *)
(* are taken.                                                               *)

EditWide ==
    \E i \in 1 .. Len(WideContents) - 1 :
        /\ WideContents[i] = model.content
        /\ Edited([model EXCEPT !.content = WideContents[i + 1]])

SnapshotApart(op) == ~coalescing(this, op) /\ Snapshot(op)

NextEviction ==
    \/ StartRecording
    \/ StopCoalescing(Undefined)
    \/ \E op \in Tags : SnapshotApart(op)
    \/ EditWide

SpecEviction == Init /\ [][NextEviction]_vars

(* The scenario of the tags: every method is called, the tag each entry    *)
(* was pushed with is followed, and the host edits the content of the       *)
(* document, its selection staying where it is (stopCoalescing() is called  *)
(* without one).                                                            *)

InitTags ==
    /\ recording = constructed.recording
    /\ stack = constructed.stack
    /\ index = constructed.index
    /\ lastOp = constructed.lastOp
    /\ model \in ModelStates
    /\ call = [op |-> "constructor"]
    /\ io = <<>>
    /\ path = NoPath
    /\ trail = <<>>
    /\ run = NewRun
    /\ tagged = NewTags

EditContent == \E m \in ModelStates : m.selection = model.selection /\ Edited(m)

NextTags ==
    \/ Reset
    \/ StartRecording
    \/ StopRecording
    \/ StopCoalescing(Undefined)
    \/ Undo
    \/ Redo
    \/ Pop
    \/ \E op \in Tags : Snapshot(op)
    \/ EditContent

SpecTags == InitTags /\ [][NextTags]_vars

----------------------------------------------------------------------------
(* The properties *)

\* C1. Depth bound: in every reachable state the stack holds at most
\* maximumDepth entries, also right after a snapshot() that pushed onto a
\* full stack.
C1_DepthBound == Len(stack) <= maximumDepth

\* A snapshot() has pushed onto a full stack and shifted the oldest entry out.
C1_Witness ==
    /\ call.op = "snapshot"
    /\ call.ret
    /\ path.shifted
    /\ Len(stack) = maximumDepth

\* C2. Position invariant: -1 <= index < stack.length, index = -1 exactly
\* when the stack is empty, and the entries undo(), redo() and
\* stopCoalescing() read or write exist.
C2_Position ==
    /\ -1 <= index
    /\ index < Len(stack)
    /\ (index = -1) <=> (stack = <<>>)
    /\ canUndo(this) => (index - 1) + 1 \in DOMAIN stack
    /\ canRedo(this) => (index + 1) + 1 \in DOMAIN stack
    /\ index >= 0 => index + 1 \in DOMAIN stack

\* After a successful undo() index is strictly inside a stack of at least
\* three entries.
C2_Witness ==
    /\ call.op = "undo"
    /\ call.ret
    /\ 0 < index
    /\ index < Len(stack) - 1

\* C3 as claimed. Coalescing: from any reachable state with recording
\* enabled, snapshot("insert"); snapshot("insert") (the model being in state
\* s1 at the first call and s2 at the second) makes the stack one entry
\* longer than before the first call, the current entry is the state the
\* second call captured, and the state the first call captured is not in the
\* stack.
C3_Original ==
    recording =>
        \A s1, s2 \in ModelStates :
            LET o1 == snapshot(this, s1, "insert")
                o2 == snapshot(o1.this, s2, "insert")
                c1 == o1.io[1].state
                c2 == o2.io[1].state
            IN  /\ Len(o2.this.stack) = Len(stack) + 1
                /\ at(o2.this.stack, o2.this.index) = c2
                /\ (c1 # c2 /\ c1 \notin Range(stack)) => c1 \notin Range(o2.this.stack)

\* C3, amended. Coalescing: with recording enabled, from a non-empty stack
\* with no redo entries, fewer than maximumDepth entries and lastOp other
\* than "insert", snapshot("insert"); snapshot("insert") leaves the former
\* stack followed by the state the second call captured alone, as the
\* current entry. From an empty stack the first entry is never popped and
\* the two calls leave two entries. In every run, the second of two calls
\* snapshot("insert") in a row calls pop() and leaves the state it captured
\* as the current, last entry.
C3_Coalescing ==
    /\ (/\ trail = <<[op |-> "snapshot", arg |-> "insert", ret |-> TRUE],
                     [op |-> "snapshot", arg |-> "insert", ret |-> TRUE]>>
        /\ call.op = "snapshot")
       => /\ path.popped
          /\ index = Len(stack) - 1
          /\ at(stack, index) = io[1].state
    /\ recording =>
        \A s1, s2 \in ModelStates :
            LET o1 == snapshot(this, s1, "insert")
                o2 == snapshot(o1.this, s2, "insert")
                c1 == o1.io[1].state
                c2 == o2.io[1].state
            IN  /\ (/\ stack # <<>>
                    /\ index = Len(stack) - 1
                    /\ Len(stack) < maximumDepth
                    /\ lastOp # "insert")
                   => /\ o1.ret
                      /\ o2.ret
                      /\ o2.this.stack = Append(stack, c2)
                      /\ Len(o2.this.stack) = Len(stack) + 1
                      /\ o2.this.index = Len(stack)
                      /\ (c1 # c2 /\ c1 \notin Range(stack)) => c1 \notin Range(o2.this.stack)
                /\ stack = <<>> => o2.this.stack = <<c1, c2>>

\* snapshot("insert") was called twice in a row, and the second call popped
\* the entry of the first.
C3_Witness ==
    /\ trail = <<[op |-> "snapshot", arg |-> "insert", ret |-> TRUE],
                 [op |-> "snapshot", arg |-> "insert", ret |-> TRUE]>>
    /\ call.op = "snapshot"
    /\ path.popped
    /\ ~path.shifted
    /\ index >= 1

\* C4 as claimed. Non-coalescing: with recording enabled, snapshot("insert");
\* stopCoalescing(); snapshot("insert") (the model being in state s1, then
\* s2) makes the stack two entries longer than before the first call, and
\* the two states captured are its last two entries.
C4_Original ==
    recording =>
        \A s1, s2 \in ModelStates :
            LET o1 == snapshot(this, s1, "insert")
                o2 == stopCoalescing(o1.this, o1.model, Undefined)
                o3 == snapshot(o2.this, s2, "insert")
                n == Len(o3.this.stack)
            IN  /\ n = Len(stack) + 2
                /\ at(o3.this.stack, n - 2) = o1.io[1].state
                /\ at(o3.this.stack, n - 1) = o3.io[1].state

\* C4, amended. Non-coalescing: with recording enabled, from a stack with no
\* redo entries, at most maximumDepth - 2 entries and lastOp other than
\* "insert", snapshot("insert"); stopCoalescing(selection?);
\* snapshot("insert") leaves the former stack followed by the two states
\* captured (the first with the selection given, if one is), the second the
\* current entry. In every run, the last call of such a sequence does not
\* call pop() and leaves the state it captured as the current, last entry.
C4_NonCoalescing ==
    /\ (/\ Len(trail) = 3
        /\ Kinds(trail) = <<"S", "C", "S">>
        /\ call.op = "snapshot")
       => /\ ~path.popped
          /\ index = Len(stack) - 1
          /\ at(stack, index) = io[1].state
    /\ (/\ recording
        /\ index = Len(stack) - 1
        /\ Len(stack) + 2 <= maximumDepth
        /\ lastOp # "insert")
       =>
       \A s1, s2 \in ModelStates : \A selection \in Selections \cup {Undefined} :
           LET o1 == snapshot(this, s1, "insert")
               o2 == stopCoalescing(o1.this, o1.model, selection)
               o3 == snapshot(o2.this, s2, "insert")
               c1 == o1.io[1].state
               first == IF selection = Undefined
                        THEN c1
                        ELSE [c1 EXCEPT !.selection = selection]
           IN  /\ o1.ret
               /\ o3.ret
               /\ o3.this.stack = stack \o <<first, o3.io[1].state>>
               /\ Len(o3.this.stack) = Len(stack) + 2
               /\ o3.this.index = Len(stack) + 1

\* snapshot("insert"); stopCoalescing(); snapshot("insert") was called, and
\* the last call neither popped, dropped nor shifted an entry.
C4_Witness ==
    /\ trail = <<[op |-> "snapshot", arg |-> "insert", ret |-> TRUE],
                 [op |-> "stopCoalescing", arg |-> Undefined],
                 [op |-> "snapshot", arg |-> "insert", ret |-> TRUE]>>
    /\ call.op = "snapshot"
    /\ path = NoPath
    /\ index >= 1

\* C5. Redo truncation: after every snapshot() that returns true, index is
\* the last position (canRedo() is false), the current entry is the state
\* getState() returned during the call, and the entries below it are entries
\* the stack held at or below the previous position, in their order (from
\* the second on if the oldest was shifted out): none of the entries after
\* the previous position is left.
C5_RedoTruncation ==
    [][(call'.op = "snapshot" /\ call'.ret) =>
          /\ index' = Len(stack') - 1
          /\ ~(Len(stack') - 1 > index')
          /\ Len(io') = 1
          /\ io'[1].fn = "getState"
          /\ at(stack', index') = io'[1].state
          /\ LET d == IF path'.shifted THEN 1 ELSE 0
                 kept == Len(stack') - 1
             IN  /\ kept + d <= index + 1
                 /\ \A i \in 1 .. kept : stack'[i] = stack[i + d]]_vars

\* A snapshot() has dropped redo entries.
C5_Witness ==
    /\ call.op = "snapshot"
    /\ call.ret
    /\ path.dropped
    /\ index = Len(stack) - 1
    /\ index >= 1

\* C6. Eviction: after maximumDepth + k snapshots (k >= 1) of distinct
\* states, none coalescing, from an empty stack, the stack holds the last
\* maximumDepth states pushed, in the order pushed, index is
\* maximumDepth - 1 and the k oldest are gone; a snapshot that shifts an
\* entry out removes the entry at position 0 alone and leaves the state just
\* pushed as the current entry.
C6_Eviction ==
    /\ [](run.ok =>
            LET n == Len(run.pushed)
                k == Max(n - maximumDepth, 0)
            IN  /\ stack = SubSeq(run.pushed, k + 1, n)
                /\ index = Len(stack) - 1
                /\ n >= maximumDepth => Len(stack) = maximumDepth /\ index = maximumDepth - 1
                /\ \A i \in 1 .. k : run.pushed[i] \notin Range(stack))
    /\ [][path'.shifted =>
            /\ stack' = Append(Tail(stack), io'[1].state)
            /\ index' = Len(stack') - 1
            /\ Len(stack') = maximumDepth]_vars

\* maximumDepth + 2 distinct states were pushed from an empty stack.
C6_Witness ==
    /\ run.ok
    /\ Len(run.pushed) = maximumDepth + 2
    /\ call.op = "snapshot"

\* C7. Recording gate: while `recording` is false snapshot(op) returns false,
\* leaves the stack, index, lastOp, the flag and the model as they are and
\* does not call getState(); while it is true snapshot(op) returns true.
C7_RecordingGate ==
    [][call'.op = "snapshot" =>
          IF recording
          THEN call'.ret = TRUE
          ELSE /\ call'.ret = FALSE
               /\ io' = <<>>
               /\ UNCHANGED <<recording, stack, index, lastOp, model>>]_vars

\* snapshot() has returned false on an engine whose stack is not empty.
C7_Witness ==
    /\ call.op = "snapshot"
    /\ ~call.ret
    /\ ~recording
    /\ stack # <<>>

\* C8. Round trip: from any reachable state with recording enabled,
\* snapshot(op); undo(); redo() with nothing between them leaves the model in
\* the state the snapshot captured and the stack and index as the snapshot
\* left them. In every run, after snapshot(); undo(); redo() index is the
\* last position, undo() and redo() returned the same, and if they returned
\* true the model is in the state of the current entry.
C8_RoundTrip ==
    /\ (/\ Len(trail) = 3
        /\ Kinds(trail) = <<"S", "U", "R">>
        /\ call.op = "redo")
       => /\ index = Len(stack) - 1
          /\ trail[2].ret = trail[3].ret
          /\ trail[3].ret => model = at(stack, index)
    /\ recording =>
        \A op \in Tags :
            LET o1 == snapshot(this, model, op)
                o2 == undo(o1.this, o1.model)
                o3 == redo(o2.this, o2.model)
            IN  /\ o1.ret
                /\ o3.model = o1.io[1].state
                /\ o3.this.stack = o1.this.stack
                /\ o3.this.index = o1.this.index
                /\ o3.ret = o2.ret

\* snapshot(); undo(); redo() was called, undo and redo returning true.
C8_Witness ==
    /\ Len(trail) = 3
    /\ trail[1].op = "snapshot"
    /\ trail[2] = [op |-> "undo", ret |-> TRUE]
    /\ trail[3] = [op |-> "redo", ret |-> TRUE]
    /\ call.op = "redo"
    /\ model = at(stack, index)

\* C9. Reset and construction: right after the constructor and after
\* reset() the stack is empty, index is -1, lastOp is empty, canUndo() and
\* canRedo() are false and undo() and redo() return false and change
\* nothing; reset() leaves `recording` and the model as they are.
C9_Reset ==
    /\ [](call.op \in {"constructor", "reset"} =>
            /\ stack = <<>>
            /\ index = -1
            /\ lastOp = ""
            /\ ~canUndo(this)
            /\ ~canRedo(this)
            /\ undo(this, model).ret = FALSE
            /\ redo(this, model).ret = FALSE)
    /\ [][call'.op = "reset" =>
            /\ recording' = recording
            /\ model' = model
            /\ io' = <<>>]_vars
    /\ [][(call.op \in {"constructor", "reset"} /\ call'.op \in {"undo", "redo"}) =>
            /\ call'.ret = FALSE
            /\ UNCHANGED <<engine, model>>]_vars

\* reset() was called on a recording engine.
C9_Witness ==
    /\ call.op = "reset"
    /\ recording
    /\ stack = <<>>

\* C10. Successful undo: whenever index >= 1, undo() returns true, calls
\* setState once, with the entry at index - 1 and the options type 'undo',
\* silenceNotifications false, decrements index by one, clears lastOp and
\* leaves the stack and `recording` as they are; the model is then in the
\* state of the new current entry.
C10_Undo ==
    [][(call'.op = "undo" /\ index >= 1) =>
          /\ call'.ret = TRUE
          /\ io' = <<[fn |-> "setState",
                      state |-> at(stack, index - 1),
                      options |-> [silenceNotifications |-> FALSE, type |-> "undo"]]>>
          /\ index' = index - 1
          /\ lastOp' = ""
          /\ stack' = stack
          /\ recording' = recording
          /\ model' = at(stack', index')]_vars

\* undo() has returned true and the model is in the state of the entry
\* before the one that was current, which differs from it.
C10_Witness ==
    /\ call.op = "undo"
    /\ call.ret
    /\ model = at(stack, index)
    /\ at(stack, index + 1) # at(stack, index)

\* C11. Successful redo: whenever index < stack.length - 1, redo() returns
\* true, calls setState once, with the entry at index + 1 and the options
\* type 'redo', silenceNotifications false, increments index by one, clears
\* lastOp and leaves the stack and `recording` as they are; the model is then
\* in the state of the new current entry.
C11_Redo ==
    [][(call'.op = "redo" /\ index < Len(stack) - 1) =>
          /\ call'.ret = TRUE
          /\ io' = <<[fn |-> "setState",
                      state |-> at(stack, index + 1),
                      options |-> [silenceNotifications |-> FALSE, type |-> "redo"]]>>
          /\ index' = index + 1
          /\ lastOp' = ""
          /\ stack' = stack
          /\ Len(stack') = Len(stack)
          /\ recording' = recording
          /\ model' = at(stack', index')]_vars

\* redo() has returned true and the model is in the state of the entry after
\* the one that was current, which differs from it.
C11_Witness ==
    /\ call.op = "redo"
    /\ call.ret
    /\ index >= 1
    /\ model = at(stack, index)
    /\ at(stack, index - 1) # at(stack, index)

\* C12. Failing undo and redo: undo() returns false exactly when index <= 0
\* and redo() returns false exactly when index = stack.length - 1; a call
\* that returns false leaves the stack, index, lastOp, `recording` and the
\* model as they are and does not call setState. No method fails: in every
\* reachable state each public method has an outcome, and the entries
\* undo(), redo() and stopCoalescing() touch exist.
C12_Failing ==
    /\ [](/\ canUndo(this) => (index - 1) + 1 \in DOMAIN stack
          /\ canRedo(this) => (index + 1) + 1 \in DOMAIN stack
          /\ index >= 0 => index + 1 \in DOMAIN stack
          /\ undo(this, model).ret \in BOOLEAN
          /\ redo(this, model).ret \in BOOLEAN
          /\ pop(this, model).this.index \in -1 .. Len(stack) - 1
          /\ reset(this, model).this.stack = <<>>
          /\ \A op \in Tags : snapshot(this, model, op).ret = recording
          /\ \A selection \in Selections \cup {Undefined} :
                Len(stopCoalescing(this, model, selection).this.stack) = Len(stack))
    /\ [][call'.op = "undo" =>
            /\ (call'.ret = FALSE) <=> (index <= 0)
            /\ call'.ret = FALSE => UNCHANGED <<engine, model>> /\ io' = <<>>]_vars
    /\ [][call'.op = "redo" =>
            /\ (call'.ret = FALSE) <=> (index = Len(stack) - 1)
            /\ call'.ret = FALSE => UNCHANGED <<engine, model>> /\ io' = <<>>]_vars

\* undo() has returned false on a single entry in the middle of a coalescing
\* run, whose tag is kept.
C12_Witness ==
    /\ call.op = "undo"
    /\ ~call.ret
    /\ index = 0
    /\ Len(stack) = 1
    /\ lastOp = "insert"

\* C13. Redo availability: only a successful undo() turns canRedo() from
\* false to true, and after every successful snapshot(), every successful
\* pop() and every reset() canRedo() is false; so canRedo() holds only if an
\* undo() has succeeded since the last of those.
C13_RedoAvailability ==
    /\ [][(~canRedo(this) /\ Len(stack') - 1 > index') =>
            /\ call'.op = "undo"
            /\ call'.ret = TRUE]_vars
    /\ [][(\/ call'.op = "snapshot" /\ call'.ret
           \/ call'.op = "pop" /\ canUndo(this)
           \/ call'.op = "reset") =>
            ~(Len(stack') - 1 > index')]_vars

\* A pop() has removed redo entries together with the current entry: redo
\* was possible before it and is not after.
C13_Witness ==
    /\ call.op = "pop"
    /\ path.popped
    /\ path.dropped
    /\ ~canRedo(this)

\* C14. stopCoalescing(selection?) sets lastOp to ''; with a selection and a
\* non-empty stack it replaces the selection of the current entry alone;
\* the length of the stack, index, `recording`, the content of every entry,
\* the selection of every other entry and the model stay as they are; with
\* an empty stack or no selection only lastOp changes.
C14_StopCoalescing ==
    [][call'.op = "stopCoalescing" =>
          /\ lastOp' = ""
          /\ Len(stack') = Len(stack)
          /\ index' = index
          /\ recording' = recording
          /\ model' = model
          /\ io' = <<>>
          /\ \A i \in DOMAIN stack :
                /\ stack'[i].content = stack[i].content
                /\ i # index + 1 => stack'[i] = stack[i]
          /\ (call'.arg # Undefined /\ stack # <<>>) =>
                stack'[index + 1].selection = call'.arg
          /\ (call'.arg = Undefined \/ stack = <<>>) => stack' = stack]_vars

\* stopCoalescing(selection) has replaced the selection of the current entry
\* in the middle of the stack, the entries around it holding another one.
C14_Witness ==
    /\ call.op = "stopCoalescing"
    /\ call.arg # Undefined
    /\ 0 < index
    /\ index < Len(stack) - 1
    /\ at(stack, index).selection = call.arg
    /\ at(stack, index - 1).selection # call.arg
    /\ at(stack, index + 1).selection # call.arg

\* C15. pop(): with index <= 0 it changes nothing; otherwise the stack
\* becomes its first `index` entries and index decreases by one, so that
\* index = stack.length - 1 afterwards. pop() never removes the entry at
\* position 0: only reset() empties a non-empty stack.
C15_Pop ==
    /\ [][call'.op = "pop" =>
            /\ UNCHANGED <<recording, lastOp, model>>
            /\ io' = <<>>
            /\ IF index <= 0
               THEN UNCHANGED <<stack, index>>
               ELSE /\ stack' = SubSeq(stack, 1, index)
                    /\ index' = index - 1
                    /\ index' = Len(stack') - 1
                    /\ stack'[1] = stack[1]]_vars
    /\ [][(stack # <<>> /\ stack' = <<>>) => call'.op = "reset"]_vars

\* A pop() has removed the current entry and the redo entries after it,
\* leaving the oldest entry alone.
C15_Witness ==
    /\ call.op = "pop"
    /\ path.popped
    /\ path.dropped
    /\ index = 0
    /\ stack # <<>>
    /\ index = Len(stack) - 1

\* C16. A coalesced run is one undo step: with recording enabled, a current
\* entry E and lastOp other than t, after the first call snapshot(t) with a
\* non-empty tag t the stack is the former stack up to E followed by the
\* state the call captured alone (less the oldest entry if the stack was
\* full), and undo() then returns true and hands E to setState; every
\* further snapshot(t) of the run (lastOp = t, an entry below the current
\* one, the host having edited the document) replaces the last entry alone
\* and leaves undo() the same, so this holds after any number k >= 1 of calls. In every run,
\* undo() after two snapshots with the same tag returns true and leaves one
\* entry after the current one.
C16_CoalescedRun ==
    /\ (/\ Len(trail) = 3
        /\ Kinds(trail) = <<"S", "S", "U">>
        /\ truthy(trail[1].arg)
        /\ trail[1].arg = trail[2].arg
        /\ call.op = "undo")
       => /\ call.ret
          /\ index = Len(stack) - 2
          /\ model = at(stack, index)
    /\ (recording /\ index >= 0) =>
        \A t \in {op \in Tags : truthy(op)} \ {lastOp} :
            LET upToE == SubSeq(stack, 1, index + 1)
                d == Max(Len(upToE) + 1 - maximumDepth, 0)
                kept == SubSeq(upToE, d + 1, Len(upToE))
            IN  /\ kept # <<>>
                /\ kept[Len(kept)] = at(stack, index)
                /\ \A s \in ModelStates :
                      LET o == snapshot(this, s, t)
                      IN  /\ o.ret = TRUE
                          /\ OneStep([this |-> o.this, last |-> o.io[1].state], t, kept)
    /\ (recording /\ truthy(lastOp) /\ index >= 1) =>
        \A s \in ModelStates :
            LET o == snapshot(this, s, lastOp)
            IN  /\ o.ret = TRUE
                /\ o.this = [this EXCEPT !.stack = Append(SubSeq(stack, 1, index), o.io[1].state)]
                /\ OneStep([this |-> o.this, last |-> o.io[1].state], lastOp,
                           SubSeq(stack, 1, index))

\* snapshot("insert"); snapshot("insert"); undo() was called on a stack that
\* held entries before the run: undo() returned true and one entry is left
\* after the current one.
C16_Witness ==
    /\ trail = <<[op |-> "snapshot", arg |-> "insert", ret |-> TRUE],
                 [op |-> "snapshot", arg |-> "insert", ret |-> TRUE],
                 [op |-> "undo", ret |-> TRUE]>>
    /\ call.op = "undo"
    /\ index >= 1
    /\ index = Len(stack) - 2
    /\ model = at(stack, index)
    /\ at(stack, index + 1) # at(stack, index)

\* C17. Untagged snapshots never coalesce: with recording enabled,
\* snapshot() and snapshot('') do not call pop(), whatever lastOp is, add
\* their entry above the entries up to the current one (less the oldest if
\* the stack is full) and set lastOp to ''. While lastOp is '', as an
\* untagged snapshot leaves it, every snapshot, tagged or not, adds its entry
\* in the same way. Two untagged snapshots in a row from the top of a stack
\* that is not full leave the two states captured as the last two entries,
\* above the former stack (less its oldest entry if one slot was free).
C17_Untagged ==
    /\ (/\ Len(trail) = 2
        /\ Kinds(trail) = <<"S", "S">>
        /\ ~truthy(trail[1].arg)
        /\ call.op = "snapshot")
       => /\ ~path.popped
          /\ index >= 1
          /\ index = Len(stack) - 1
          /\ at(stack, index) = io[1].state
    /\ recording =>
        \A op \in {t \in Tags : ~truthy(t)} : \A s \in ModelStates :
            LET o == snapshot(this, s, op)
            IN  Added(this, o) /\ o.this.lastOp = ""
    /\ (recording /\ lastOp = "") =>
        \A op \in {t \in Tags : truthy(t)} : \A s \in ModelStates :
            Added(this, snapshot(this, s, op))
    /\ (recording /\ index = Len(stack) - 1 /\ Len(stack) < maximumDepth) =>
        \A op \in {t \in Tags : ~truthy(t)} : \A s1, s2 \in ModelStates :
            snapshot(snapshot(this, s1, op).this, s2, op).this.stack =
                Last(stack \o <<getState(s1), getState(s2)>>, maximumDepth)

\* snapshot(); snapshot('') was called on a stack whose last operation was
\* untagged too: the second call did not pop, and the two entries are the
\* last two of the stack.
C17_Witness ==
    /\ trail = <<[op |-> "snapshot", arg |-> Undefined, ret |-> TRUE],
                 [op |-> "snapshot", arg |-> "", ret |-> TRUE]>>
    /\ call.op = "snapshot"
    /\ ~path.popped
    /\ ~path.shifted
    /\ lastOp = ""
    /\ index >= 2
    /\ at(stack, index) # at(stack, index - 1)

\* C18. Repeated undo and redo end at the ends of the stack: from any
\* reachable state with index p and n entries, undo() called repeatedly
\* returns true max(p, 0) times and then false, leaving index 0 if n > 0 and
\* the model in the state of the oldest entry if an undo() succeeded; redo()
\* called repeatedly returns true n - 1 - p times and then false, leaving
\* index n - 1 (and the model in the state of the last entry if a redo()
\* succeeded). Neither changes the stack.
C18_Repeated ==
    LET n == Len(stack)
        p == index
        undone == undoRepeatedly(this, model, n + 1)
        redone == redoRepeatedly(this, model, n + 1)
    IN  /\ undone.ended
        /\ undone.count = Max(p, 0)
        /\ n > 0 => undone.this.index = 0
        /\ undone.count >= 1 => undone.model = at(stack, 0)
        /\ undone.count = 0 => undone.model = model
        /\ undone.this.stack = stack
        /\ redone.ended
        /\ redone.count = n - 1 - p
        /\ redone.this.index = n - 1
        /\ redone.count >= 1 => redone.model = at(stack, n - 1)
        /\ redone.this.stack = stack

\* undo() has returned false at the oldest entry of a full stack, with redo
\* entries after it (so undo() had succeeded before) and the model in the
\* state of the oldest entry.
C18_Witness ==
    /\ call.op = "undo"
    /\ ~call.ret
    /\ index = 0
    /\ Len(stack) = maximumDepth
    /\ model = at(stack, 0)
    /\ model # at(stack, 1)

\* C19. Coalescing never meets a redo branch: whenever lastOp is not empty,
\* index = stack.length - 1. Hence the pop() of a coalescing snapshot removes
\* the last entry alone, or nothing, and there is then nothing for line 132
\* to drop; and a snapshot called while redo entries exist does not call
\* pop() and drops all of them: the new entry comes right above the former
\* current one.
C19_NoRedoBranch ==
    /\ [](lastOp # "" => index = Len(stack) - 1 /\ ~canRedo(this))
    /\ [][(call'.op = "snapshot" /\ call'.ret /\ path'.popped) =>
            /\ index = Len(stack) - 1
            /\ popped(this).stack \in {stack, SubSeq(stack, 1, Len(stack) - 1)}
            /\ ~path'.dropped]_vars
    /\ [][(call'.op = "snapshot" /\ call'.ret /\ canRedo(this)) =>
            /\ ~path'.popped
            /\ path'.dropped
            /\ stack' = Last(Append(SubSeq(stack, 1, index + 1), io'[1].state),
                             maximumDepth)
            /\ index' = Len(stack') - 1]_vars

\* snapshot("insert") was called while redo entries existed: it did not
\* call pop(), dropped them, and leaves lastOp = "insert" at the top.
C19_Witness ==
    /\ call.op = "snapshot"
    /\ call.arg = "insert"
    /\ call.ret
    /\ path.dropped
    /\ ~path.popped
    /\ lastOp = "insert"
    /\ index = Len(stack) - 1

\* C20. Coalescing only replaces a same-tag entry: over every sequence of
\* calls, pop() included, whenever snapshot(t) calls pop() and pop() removes
\* the current entry, that entry was pushed by a snapshot(t) with the same
\* tag t.
C20_SameTag ==
    [][(/\ call'.op = "snapshot"
        /\ call'.ret
        /\ path'.popped
        /\ canUndo(this)) =>
          tagged.ops[index + 1] = call'.arg]_vars

====
